---- MODULE Spec2Model ----
(***************************************************************************)
(* Model of the konke gateway proxy (proxy.go): one Proxy value shared by  *)
(* the main goroutine (Start, then the HTTP server), the receive loop, the *)
(* heartbeat loop and the gin request handlers.  Each goroutine is a       *)
(* thread with a program counter; each action is one step of one           *)
(* goroutine between two points where another goroutine can observe or     *)
(* change the shared Proxy fields.                                         *)
(***************************************************************************)
EXTENDS Integers, Sequences, FiniteSets, TLC

\* ---------------------------------------------------------------- bounds
MaxInbound == 1      \* fragments the gateway delivers while the whole proxy runs
MaxReports == 2      \* fragments the gateway delivers to the receive loop alone
MaxReq == 1          \* REST requests the HTTP server accepts, one goroutine each
MaxGen == 2          \* receive/heartbeat goroutine pairs that can be spawned
MaxConn == 2         \* connections net.Dial can hand out
DeviceCount == 1     \* config.Gateway.DeviceCount
MaxFrames == 2       \* frames put on the wire when the codec is exercised
MaxArgLen == 1       \* characters of a string argument when the codec is exercised

\* ------------------------------------------------------- configuration
\* config.Devices.Curtains / config.Devices.Lights (node id -> entity id)
Curtains == [n \in {"1", "2"} |-> IF n = "1" THEN "c1" ELSE "c2"]
Lights == [n \in {"2", "3"} |-> IF n = "2" THEN "l2" ELSE "l3"]
Nodes == {"1", "2", "3", "4"}
Entities == {"c1", "c2", "l2", "l3"}
RawArgs == {"ON", "OFF", "OPEN", "CLOSE", "FOO"}
ObjArg == "<object>"     \* an arg that is a JSON object, not a string
\* what REST callers submit
CmdNodes == {"1"}
CmdArgs == {"ON", "OPEN"}

\* strconv.Itoa on the device indices of initState
Itoa(i) == CASE i = 1 -> "1" [] i = 2 -> "2" [] i = 3 -> "3" [] OTHER -> "4"

\* ------------------------------------------------------------- threads
Main == <<"main", 0>>
NoThread == <<"none", 0>>
Receivers == {<<"rd", g>> : g \in 1..MaxGen}
Heartbeats == {<<"hb", g>> : g \in 1..MaxGen}
Handlers == {<<"h", i>> : i \in 1..MaxReq}
Loops == Receivers \cup Heartbeats
Threads == {Main} \cup Loops \cup Handlers

NoMsg == [opcode |-> "", nodeid |-> "", arg |-> ""]

VARIABLES
    connected,   \* Proxy.connected
    conn,        \* Proxy.conn: 0 is nil, n > 0 the n-th dialled connection
    closed,      \* connections on which conn.Close() has been called
    mutex,       \* Proxy.mutex: the goroutine that locked it, or NoThread
    devices,     \* Proxy.devices: node id -> raw value ("" when absent)
    entity,      \* Proxy.entity: entity id -> normalized state ("" when absent)
    pc,          \* where each goroutine is
    ret,         \* for a goroutine inside sendMessage: which call site it is
    cur,         \* the message a goroutine is sending or handling
    qi,          \* initState's loop index i
    rconn,       \* the connection a receive loop's bufio.Reader wraps
    gen,         \* the connection that was current when a loop was spawned
    sent,        \* per connection, the frames written to it
    reports,     \* the SWITCH reports that reached the reconciliation, in order:
                 \* the entity and state each resolved to, the entity's recorded
                 \* state before it, and whether a POST was made for it
    lastCall,    \* the last POST made to Home Assistant
    resp,        \* the last response the HTTP server sent: its status, and the
                 \* raw token its is_active / is_open boolean is derived from
    crashed,     \* the process died of a fatal runtime error
    inLeft,      \* fragments the gateway has yet to deliver
    lastDial,    \* how the last net.Dial ended: "none", "ok" or "failed"
    lastWrite,   \* how the last p.conn.Write ended: "none", "ok" or "failed"
    outbox,      \* the messages handed to sendMessage's encoder, in order
    inflow,      \* the fragments the peer sends, in order
    put,         \* how many of outbox / inflow are on the wire already
    wire,        \* the bytes written to the socket and not yet read
    decoded      \* the messages parseMessages has returned, in order

vars == <<connected, conn, closed, mutex, devices, entity, pc, ret, cur, qi,
          rconn, gen, sent, reports, lastCall, resp, crashed, inLeft, lastDial,
          lastWrite, outbox, inflow, put, wire, decoded>>

shared == <<connected, conn, closed, devices, entity>>
logs == <<sent, reports, lastCall>>
counters == <<inLeft, lastDial, lastWrite>>
codec == <<outbox, inflow, put, wire, decoded>>
proxy == <<shared, mutex, pc, ret, cur, qi, rconn, gen, logs, resp, crashed, counters>>

NoResp == [code |-> 0, token |-> ""]
NoCall == [entity |-> "", state |-> "", ok |-> FALSE]

\* the codec at rest: nothing to send, nothing on the wire
CodecIdle ==
    /\ outbox = <<>>
    /\ inflow = <<>>
    /\ put = 0
    /\ wire = <<>>
    /\ decoded = <<>>

\* NewProxy, and main before proxy.Start()
Init ==
    /\ connected = FALSE
    /\ conn = 0
    /\ closed = {}
    /\ mutex = NoThread
    /\ devices = [n \in Nodes |-> ""]
    /\ entity = [e \in Entities |-> ""]
    /\ pc = [t \in Threads |->
               IF t = Main THEN "start" ELSE IF t \in Handlers THEN "idle" ELSE "unborn"]
    /\ ret = [t \in Threads |-> ""]
    /\ cur = [t \in Threads |-> NoMsg]
    /\ qi = [t \in Threads |-> 0]
    /\ rconn = [t \in Receivers |-> 0]
    /\ gen = [t \in Loops |-> 0]
    /\ sent = [c \in 1..MaxConn |-> {}]
    /\ reports = <<>>
    /\ lastCall = NoCall
    /\ resp = NoResp
    /\ crashed = FALSE
    /\ inLeft = MaxInbound
    /\ lastDial = "none"
    /\ lastWrite = "none"
    /\ CodecIdle


\* ------------------------------------------------------------- helpers
\* A fatal runtime error or an unrecovered panic ends the process: every
\* goroutine is gone, and so is the Proxy value
Crash ==
    /\ crashed' = TRUE
    /\ connected' = FALSE
    /\ conn' = 0
    /\ closed' = {}
    /\ mutex' = NoThread
    /\ devices' = [n \in Nodes |-> ""]
    /\ entity' = [e \in Entities |-> ""]
    /\ pc' = [t \in Threads |-> "dead"]
    /\ ret' = [t \in Threads |-> ""]
    /\ cur' = [t \in Threads |-> NoMsg]
    /\ qi' = [t \in Threads |-> 0]
    /\ rconn' = [t \in Receivers |-> 0]
    /\ gen' = [t \in Loops |-> 0]
    /\ UNCHANGED <<logs, resp, counters>>

Msg(op, n, a) == [opcode |-> op, nodeid |-> n, arg |-> a]

\* msg.Arg.(string): whether the arg is a plain string
IsString(a) == a # ObjArg

\* a switch on arg whose default branch yields "off" instead of returning
NormalizeLax(a) == IF a \in {"ON", "OPEN"} THEN "on" ELSE "off"

\* a switch on arg that lacks the "OPEN" case
NormalizeOnOnly(a) ==
    IF a = "ON" THEN "on" ELSE IF a \in {"OFF", "CLOSE"} THEN "off" ELSE ""

\* handleSwitch's switch on arg: the normalized state, "" for the default branch
Normalize(a) ==
    IF a \in {"ON", "OPEN"} THEN "on"
    ELSE IF a \in {"OFF", "CLOSE"} THEN "off"
    ELSE ""

\* a lookup that consults the lights before the curtains
ResolveLightsFirst(n) ==
    IF n \in DOMAIN Lights THEN Lights[n]
    ELSE IF n \in DOMAIN Curtains THEN Curtains[n]
    ELSE ""

\* handleSwitch's lookup of the entity id: curtains, then lights, else ""
Resolve(n) ==
    IF n \in DOMAIN Curtains THEN Curtains[n]
    ELSE IF n \in DOMAIN Lights THEN Lights[n]
    ELSE ""

\* the opcodes NewProxy registers a handler for
HandledOpcodes == {"CCU_HB", "SYNC_INFO", "SWITCH", "LOGIN"}

\* ReadState: what the GET handlers read from the Device State Map
ReadState(n) == devices[n]

\* the message each call site of sendMessage passes
Frame(t) ==
    CASE ret[t] = "login" -> Msg("LOGIN", "*", ObjArg)
      [] ret[t] = "hb" -> Msg("CCU_HB", "*", "*")
      [] ret[t] = "query" -> Msg("QUERY", Itoa(qi[t]), "*")
      [] OTHER -> cur[t]

\* what the gateway can deliver in one read: a malformed fragment (opcode "")
\* or a well-formed frame
Inbound ==
    {Msg("SWITCH", n, a) : n \in Nodes, a \in RawArgs \cup {ObjArg}}
    \cup {Msg(op, "*", "*") : op \in {"CCU_HB", "SYNC_INFO", "LOGIN", "NOTIFY"}}
    \cup {Msg("NOTIFY", "1", "ON")}
    \cup {NoMsg}

\* the fragments delivered while the whole proxy runs
InboundOps == {Msg("SWITCH", "1", "OFF"), Msg("LOGIN", "*", "*")}

\* ----------------------------------------------------- connect / Start
\* net.Dial may fail or succeed
DialOutcomes == {TRUE, FALSE}

\* connect(), entered from Start (pc "start") or from one iteration of
\* reconnect's loop after its sleep (pc "backoff"): the loop condition
\* !p.connected, then net.Dial, p.conn = conn, p.connected = true and the
\* call of login up to sendMessage's Lock
Connect(t) ==
    /\ ~crashed
    /\ UNCHANGED codec
    /\ pc[t] \in {"start", "backoff"}
    /\ IF pc[t] = "backoff" /\ connected
       THEN /\ pc' = [pc EXCEPT ![t] = "return"]
            /\ UNCHANGED <<shared, mutex, ret, cur, qi, rconn, gen, logs, resp,
                           crashed, counters>>
       ELSE \E ok \in DialOutcomes :
              IF ok
              THEN /\ conn < MaxConn
                   /\ conn' = conn + 1
                   /\ connected' = TRUE
                   /\ pc' = [pc EXCEPT ![t] = "send_lock"]
                   /\ ret' = [ret EXCEPT ![t] = "login"]
                   /\ lastDial' = "ok"
                   /\ UNCHANGED <<closed, devices, entity, mutex, cur, qi, rconn, gen,
                                  logs, resp, crashed, inLeft, lastWrite>>
              ELSE /\ lastDial' = "failed"
                   /\ pc' = [pc EXCEPT ![t] = IF t = Main THEN "serve" ELSE "backoff"]
                   /\ UNCHANGED <<shared, mutex, ret, cur, qi, rconn, gen, logs, resp,
                                  crashed, inLeft, lastWrite>>

\* ------------------------------------------------------- sendMessage
\* a sendMessage that does not wait for the mutex
CanLockAlways(t) == TRUE

\* p.mutex.Lock() succeeds only on an unlocked mutex (sync.Mutex is not reentrant)
CanLock(t) == mutex = NoThread

\* sendMessage: p.mutex.Lock()
SendLock(t) ==
    /\ ~crashed
    /\ UNCHANGED codec
    /\ pc[t] = "send_lock"
    /\ CanLock(t)
    /\ mutex' = t
    /\ pc' = [pc EXCEPT ![t] = "send_write"]
    /\ UNCHANGED <<shared, ret, cur, qi, rconn, gen, logs, resp, crashed, counters>>

\* where the caller of sendMessage goes once it has returned (ok: err == nil)
AfterSend(t, ok) ==
    CASE ret[t] = "login" ->
           IF ok THEN "spawn" ELSE IF t = Main THEN "serve" ELSE "backoff"
      [] ret[t] = "query" ->
           IF qi[t] < DeviceCount THEN "send_lock" ELSE "return"
      [] ret[t] = "hb" ->
           IF ok THEN "hb_check" ELSE "hd_lock"
      [] OTHER -> "h_store"

\* conn.Write may fail on an open connection and always fails on a closed one
WriteOutcomes(c) == IF c \in closed THEN {FALSE} ELSE {TRUE, FALSE}

\* sendMessage from json.Marshal to the deferred Unlock: the frame is written
\* to p.conn.  A nil p.conn panics; the deferred Unlock still runs; gin's
\* Recovery turns the panic of a handler into a 500, any other goroutine's
\* panic ends the process.
SendWrite(t) ==
    /\ ~crashed
    /\ UNCHANGED codec
    /\ pc[t] = "send_write"
    /\ IF conn = 0
       THEN IF t \in Handlers
            THEN /\ mutex' = NoThread
                 /\ resp' = [code |-> 500, token |-> ""]
                 /\ pc' = [pc EXCEPT ![t] = "done"]
                 /\ ret' = [ret EXCEPT ![t] = ""]
                 /\ cur' = [cur EXCEPT ![t] = NoMsg]
                 /\ UNCHANGED <<shared, qi, rconn, gen, logs, crashed, counters>>
            ELSE Crash
       ELSE \E ok \in WriteOutcomes(conn) :
            /\ mutex' = NoThread
            /\ sent' = IF ok THEN [sent EXCEPT ![conn] = @ \cup {Frame(t)}] ELSE sent
            /\ lastWrite' = IF ok THEN "ok" ELSE "failed"
            /\ pc' = [pc EXCEPT ![t] = AfterSend(t, ok)]
            /\ qi' = [qi EXCEPT ![t] = IF ret[t] = "query" /\ @ < DeviceCount
                                       THEN @ + 1 ELSE 0]
            /\ ret' = [ret EXCEPT ![t] =
                         IF @ \in {"login", "hb"} \/ AfterSend(t, ok) = "return"
                         THEN "" ELSE @]
            /\ UNCHANGED <<shared, cur, rconn, gen, reports, lastCall, resp,
                           crashed, inLeft, lastDial>>

\* Start / reconnect after connect() returned nil: go p.receive(),
\* go p.sendHeartbeat(), and initState up to the first queryNodeID
Spawn(t) ==
    /\ ~crashed
    /\ UNCHANGED codec
    /\ pc[t] = "spawn"
    /\ \E g \in 1..MaxGen :
         /\ pc[<<"rd", g>>] = "unborn"
         /\ \A k \in 1..(g - 1) : pc[<<"rd", k>>] # "unborn"
         /\ pc' = [pc EXCEPT ![<<"rd", g>>] = "rd_init",
                             ![<<"hb", g>>] = "hb_check",
                             ![t] = IF DeviceCount >= 1 THEN "send_lock" ELSE "return"]
         /\ gen' = [gen EXCEPT ![<<"rd", g>>] = conn, ![<<"hb", g>>] = conn]
    /\ ret' = [ret EXCEPT ![t] = IF DeviceCount >= 1 THEN "query" ELSE ""]
    /\ qi' = [qi EXCEPT ![t] = IF DeviceCount >= 1 THEN 1 ELSE 0]
    /\ UNCHANGED <<shared, mutex, cur, rconn, logs, resp, crashed, counters>>

\* Start returns to main, which goes on to router.Run; or reconnect returns
\* to handleDisconnect, whose deferred Unlock runs (unlocking an unlocked
\* mutex is a fatal error) and the goroutine ends
Return(t) ==
    /\ ~crashed
    /\ UNCHANGED codec
    /\ pc[t] = "return"
    /\ IF t = Main
       THEN /\ pc' = [pc EXCEPT ![t] = "serve"]
            /\ UNCHANGED <<shared, mutex, ret, cur, qi, rconn, gen, logs, resp,
                           crashed, counters>>
       ELSE IF mutex = NoThread
            THEN Crash
            ELSE /\ mutex' = NoThread
                 /\ pc' = [pc EXCEPT ![t] = "done"]
                 /\ UNCHANGED <<shared, ret, cur, qi, rconn, gen, logs, resp,
                                crashed, counters>>

\* ---------------------------------------------------- handleDisconnect
\* a handleDisconnect that unlocks the mutex before it sleeps and reconnects
HandleDisconnectUnlocked(t) ==
    /\ ~crashed
    /\ UNCHANGED codec
    /\ pc[t] = "hd_lock"
    /\ mutex = NoThread
    /\ IF ~connected
       THEN /\ pc' = [pc EXCEPT ![t] = "done"]
            /\ UNCHANGED <<connected, closed>>
       ELSE /\ connected' = FALSE
            /\ closed' = IF conn # 0 THEN closed \cup {conn} ELSE closed
            /\ pc' = [pc EXCEPT ![t] = "backoff"]
    /\ UNCHANGED <<conn, devices, entity, mutex, ret, cur, qi, rconn, gen, logs, resp,
                   crashed, counters>>

\* handleDisconnect: Lock; if !p.connected the deferred Unlock runs and the
\* caller's goroutine ends; otherwise p.connected = false, p.conn.Close(),
\* and the 10 s sleep before reconnect() starts, the mutex still held
HandleDisconnect(t) ==
    /\ ~crashed
    /\ UNCHANGED codec
    /\ pc[t] = "hd_lock"
    /\ mutex = NoThread
    /\ IF ~connected
       THEN /\ pc' = [pc EXCEPT ![t] = "done"]
            /\ UNCHANGED <<connected, closed, mutex>>
       ELSE /\ mutex' = t
            /\ connected' = FALSE
            /\ closed' = IF conn # 0 THEN closed \cup {conn} ELSE closed
            /\ pc' = [pc EXCEPT ![t] = "backoff"]
    /\ UNCHANGED <<conn, devices, entity, ret, cur, qi, rconn, gen, logs, resp,
                   crashed, counters>>

\* --------------------------------------------------------- sendHeartbeat
\* sendHeartbeat's loop condition p.connected, read after the sleep (or at
\* the start of the goroutine), and the call of sendMessage up to its Lock
HbCheck(t) ==
    /\ ~crashed
    /\ UNCHANGED codec
    /\ pc[t] = "hb_check"
    /\ IF connected
       THEN /\ pc' = [pc EXCEPT ![t] = "send_lock"]
            /\ ret' = [ret EXCEPT ![t] = "hb"]
       ELSE /\ pc' = [pc EXCEPT ![t] = "done"]
            /\ ret' = ret
    /\ UNCHANGED <<shared, mutex, cur, qi, rconn, gen, logs, resp, crashed, counters>>

\* --------------------------------------------------------------- receive
\* receive: bufio.NewReader(p.conn)
RdInit(t) ==
    /\ ~crashed
    /\ UNCHANGED codec
    /\ pc[t] = "rd_init"
    /\ rconn' = [rconn EXCEPT ![t] = conn]
    /\ pc' = [pc EXCEPT ![t] = "rd_check"]
    /\ UNCHANGED <<shared, mutex, ret, cur, qi, gen, logs, resp, crashed, counters>>

\* receive's loop condition p.connected
RdCheck(t) ==
    /\ ~crashed
    /\ UNCHANGED codec
    /\ pc[t] = "rd_check"
    /\ pc' = [pc EXCEPT ![t] = IF connected THEN "rd_read" ELSE "done"]
    /\ UNCHANGED <<shared, mutex, ret, cur, qi, rconn, gen, logs, resp, crashed, counters>>

\* reader.ReadString('$') returns an error (the connection was closed here,
\* or failed): receive calls handleDisconnect
RdReadErr(t) ==
    /\ ~crashed
    /\ UNCHANGED codec
    /\ pc[t] = "rd_read"
    /\ pc' = [pc EXCEPT ![t] = "hd_lock"]
    /\ UNCHANGED <<shared, mutex, ret, cur, qi, rconn, gen, logs, resp, crashed, counters>>

\* a handleMessage that hands every message to the SWITCH handler
RouteToSwitch(m) == "rd_sw"

\* handleMessage: the handler registered for the opcode (handleSwitch, or one
\* of the handlers that only print), else the "Unhandled message" print
Route(m) ==
    IF m.opcode \in HandledOpcodes
    THEN IF m.opcode = "SWITCH" THEN "rd_sw" ELSE "rd_msg"
    ELSE "rd_msg"

\* reader.ReadString('$') returns one fragment; parseMessages drops it unless
\* it is a well-formed frame; handleMessage dispatches on the opcode.
RdReadData(t, in) ==
    /\ ~crashed
    /\ UNCHANGED codec
    /\ pc[t] = "rd_read"
    /\ rconn[t] \notin closed
    /\ inLeft > 0
    /\ inLeft' = inLeft - 1
    /\ \E m \in in :
         IF m = NoMsg
         THEN /\ cur' = cur
              /\ pc' = [pc EXCEPT ![t] = "rd_check"]
         ELSE /\ cur' = [cur EXCEPT ![t] = m]
              /\ pc' = [pc EXCEPT ![t] = Route(m)]
    /\ UNCHANGED <<shared, mutex, ret, qi, rconn, gen, logs, resp, crashed, lastDial,
                   lastWrite>>

\* handleHeartbeat, handleSync, handleLogin and handleMessage's else branch:
\* the message is printed, nothing else happens
HandlePrint(t) ==
    /\ ~crashed
    /\ UNCHANGED codec
    /\ pc[t] = "rd_msg"
    /\ pc' = [pc EXCEPT ![t] = "rd_check"]
    /\ cur' = [cur EXCEPT ![t] = NoMsg]
    /\ UNCHANGED <<shared, mutex, ret, qi, rconn, gen, logs, resp, crashed, counters>>

\* the outcome of the POST to Home Assistant: 200/201, or anything else
HttpOutcomes == {TRUE, FALSE}

\* a reconciliation that pushes every report
NeedsUpdateAlways(e, st) == TRUE

\* handleSwitch's reconciliation: whether the entity's state is to be pushed
NeedsUpdate(e, st) == entity[e] # st

\* a reconciliation that takes the new state back when the POST fails
RecordedIfPosted(prev, st, ok) == IF ok THEN st ELSE prev

\* what p.entity[entityID] holds once updateHomeAssistant has returned: it
\* was set before the call, and the outcome of the call changes nothing
Recorded(prev, st, ok) == st

\* handleSwitch, with updateHomeAssistant
HandleSwitch(t) ==
    /\ ~crashed
    /\ UNCHANGED codec
    /\ pc[t] = "rd_sw"
    /\ pc' = [pc EXCEPT ![t] = "rd_check"]
    /\ cur' = [cur EXCEPT ![t] = NoMsg]
    /\ LET n == cur[t].nodeid
           a == cur[t].arg
           st == Normalize(a)
           e == Resolve(n)
       IN IF ~IsString(a)
          THEN UNCHANGED <<devices, entity, reports, lastCall>>
          ELSE /\ devices' = [devices EXCEPT ![n] = a]
               /\ IF st = "" \/ e = ""
                  THEN UNCHANGED <<entity, reports, lastCall>>
                  ELSE /\ reports' = Append(reports,
                                       [entity |-> e, state |-> st, before |-> entity[e],
                                        called |-> NeedsUpdate(e, st)])
                       /\ IF NeedsUpdate(e, st)
                          THEN \E ok \in HttpOutcomes :
                                 /\ entity' = [entity EXCEPT
                                                 ![e] = Recorded(entity[e], st, ok)]
                                 /\ lastCall' = [entity |-> "switch." \o e,
                                                 state |-> st, ok |-> ok]
                          ELSE UNCHANGED <<entity, lastCall>>
    /\ UNCHANGED <<connected, conn, closed, mutex, ret, qi, rconn, gen, sent, resp,
                   crashed, counters>>

\* ---------------------------------------------------------- REST handlers
\* the HTTP server (router.Run) runs each request in a goroutine of its own;
\* the goroutines are numbered in the order their requests arrive
Serving(h) ==
    /\ pc[Main] = "serve"
    /\ pc[h] = "idle"
    /\ \A i \in 1..(h[2] - 1) : pc[<<"h", i>>] # "idle"

\* POST /switch/:id or POST /curtain/:id with a body that binds: the SWITCH
\* message is built and sendMessage is called, up to its Lock
Post(h) ==
    /\ ~crashed
    /\ UNCHANGED codec
    /\ Serving(h)
    /\ \E n \in CmdNodes, a \in CmdArgs :
         cur' = [cur EXCEPT ![h] = Msg("SWITCH", n, a)]
    /\ ret' = [ret EXCEPT ![h] = "cmd"]
    /\ pc' = [pc EXCEPT ![h] = "send_lock"]
    /\ UNCHANGED <<shared, mutex, qi, rconn, gen, logs, resp, crashed, counters>>

\* POST with a body BindJSON rejects: 400
PostInvalid(h) ==
    /\ ~crashed
    /\ UNCHANGED codec
    /\ Serving(h)
    /\ resp' = [code |-> 400, token |-> ""]
    /\ pc' = [pc EXCEPT ![h] = "done"]
    /\ UNCHANGED <<shared, mutex, ret, cur, qi, rconn, gen, logs, crashed, counters>>

\* the POST handlers after sendMessage returned (its error is dropped):
\* proxy.devices[id] = data.Arg and the 200 response
HStore(h) ==
    /\ ~crashed
    /\ UNCHANGED codec
    /\ pc[h] = "h_store"
    /\ devices' = [devices EXCEPT ![cur[h].nodeid] = cur[h].arg]
    /\ resp' = [code |-> 200, token |-> cur[h].arg]
    /\ pc' = [pc EXCEPT ![h] = "done"]
    /\ ret' = [ret EXCEPT ![h] = ""]
    /\ cur' = [cur EXCEPT ![h] = NoMsg]
    /\ UNCHANGED <<connected, conn, closed, entity, mutex, qi, rconn, gen, logs,
                   crashed, counters>>

\* GET /switch/:id or GET /curtain/:id: the cached raw token is read and the
\* boolean derived from it is returned with a 200
Get(h) ==
    /\ ~crashed
    /\ UNCHANGED codec
    /\ Serving(h)
    /\ \E n \in CmdNodes : resp' = [code |-> 200, token |-> ReadState(n)]
    /\ pc' = [pc EXCEPT ![h] = "done"]
    /\ UNCHANGED <<shared, mutex, ret, cur, qi, rconn, gen, logs, crashed, counters>>

\* ------------------------------------------------------- unsynchronised map
\* a goroutine about to write p.devices
AtDevicesWrite(t) ==
    \/ pc[t] = "rd_sw" /\ IsString(cur[t].arg)
    \/ pc[t] = "h_store"

\* a goroutine about to read p.devices (a GET that is being served)
AtDevicesRead(t) ==
    t \in Handlers /\ Serving(t)

\* Two goroutines access the devices map at once, one of them writing: the
\* Go runtime may end the process ("concurrent map writes", "concurrent map
\* read and map write")
MapRace ==
    /\ ~crashed
    /\ UNCHANGED codec
    /\ \E t, u \in Threads :
         /\ t # u
         /\ AtDevicesWrite(t)
         /\ AtDevicesWrite(u) \/ AtDevicesRead(u)
    /\ Crash

\* ------------------------------------------------------------------ spec
Next ==
    \/ \E t \in Threads : Connect(t)
    \/ \E t \in Threads : SendLock(t)
    \/ \E t \in Threads : SendWrite(t)
    \/ \E t \in Threads : Spawn(t)
    \/ \E t \in Threads : Return(t)
    \/ \E t \in Loops : HandleDisconnect(t)
    \/ \E t \in Heartbeats : HbCheck(t)
    \/ \E t \in Receivers : RdInit(t)
    \/ \E t \in Receivers : RdCheck(t)
    \/ \E t \in Receivers : RdReadErr(t)
    \/ \E t \in Receivers : RdReadData(t, InboundOps)
    \/ \E t \in Receivers : HandlePrint(t)
    \/ \E t \in Receivers : HandleSwitch(t)
    \/ \E h \in Handlers : Post(h)
    \/ \E h \in Handlers : PostInvalid(h)
    \/ \E h \in Handlers : HStore(h)
    \/ \E h \in Handlers : Get(h)
    \/ MapRace

Spec == Init /\ [][Next]_vars

\* The Go scheduler runs every runnable goroutine, a sleep ends, a dial or a
\* write returns, and a goroutine waiting for a sync.Mutex that keeps being
\* released gets it (the mutex's starvation mode).  Nothing makes the
\* gateway send, a REST caller call, or the runtime detect a map race.
Fairness ==
    \A t \in Threads :
        /\ WF_vars(Connect(t))
        /\ SF_vars(SendLock(t))
        /\ WF_vars(SendWrite(t))
        /\ WF_vars(Spawn(t))
        /\ WF_vars(Return(t))
        /\ SF_vars(HandleDisconnect(t))
        /\ WF_vars(HbCheck(t))
        /\ WF_vars(RdInit(t))
        /\ WF_vars(RdCheck(t))
        /\ WF_vars(HandlePrint(t))
        /\ WF_vars(HandleSwitch(t))
        /\ WF_vars(HStore(t))

FairSpec == Spec /\ Fairness

\* --------------------------------------------- the receive loop on its own
\* The proxy once Start has returned nil: connected, LOGIN and the QUERYs
\* written, both loops spawned, main in router.Run
Established ==
    /\ connected = TRUE
    /\ conn = 1
    /\ closed = {}
    /\ mutex = NoThread
    /\ devices = [n \in Nodes |-> ""]
    /\ entity = [e \in Entities |-> ""]
    /\ pc = [t \in Threads |->
               CASE t = Main -> "serve"
                 [] t = <<"rd", 1>> -> "rd_init"
                 [] t = <<"hb", 1>> -> "hb_check"
                 [] t \in Handlers -> "idle"
                 [] OTHER -> "unborn"]
    /\ ret = [t \in Threads |-> ""]
    /\ cur = [t \in Threads |-> NoMsg]
    /\ qi = [t \in Threads |-> 0]
    /\ rconn = [t \in Receivers |-> 0]
    /\ gen = [t \in Loops |-> IF t[2] = 1 THEN 1 ELSE 0]
    /\ sent = [c \in 1..MaxConn |->
                 IF c = 1
                 THEN {Msg("LOGIN", "*", ObjArg)}
                      \cup {Msg("QUERY", Itoa(i), "*") : i \in 1..DeviceCount}
                 ELSE {}]
    /\ reports = <<>>
    /\ lastCall = NoCall
    /\ resp = NoResp
    /\ crashed = FALSE
    /\ inLeft = MaxReports
    /\ lastDial = "ok"
    /\ lastWrite = "ok"

InitRouter == Established /\ CodecIdle

\* The steps of the receive loop, the gateway sending any fragment, and of
\* one REST command, the other writer of the Device State Map
FirstHandler == <<"h", 1>>

RouterNext ==
    \/ \E t \in Threads : SendLock(t)
    \/ \E t \in Threads : SendWrite(t)
    \/ \E t \in Receivers : RdInit(t)
    \/ \E t \in Receivers : RdCheck(t)
    \/ \E t \in Receivers : RdReadErr(t)
    \/ \E t \in Receivers : RdReadData(t, Inbound)
    \/ \E t \in Receivers : HandlePrint(t)
    \/ \E t \in Receivers : HandleSwitch(t)
    \/ Post(FirstHandler)
    \/ HStore(FirstHandler)
    \/ MapRace

RouterSpec == InitRouter /\ [][RouterNext]_vars

\* ------------------------------------------------------------ the codec
\* The wire is a sequence of characters.  One token stands for the JSON text
\* of the fields that precede the arg ("nodeid":..,"opcode":..,"arg":), the
\* string argument is spelled out character by character.
Chars == {"a", "$", "!"}
Quote == "\""
Heads == {[opcode |-> "SWITCH", nodeid |-> "1"], [opcode |-> "CCU_HB", nodeid |-> "*"]}
HeadToken(h) == h.opcode \o ":" \o h.nodeid

\* the strings of at most n characters
RECURSIVE StringsUpTo(_)
StringsUpTo(n) ==
    IF n = 0 THEN {<<>>}
    ELSE LET shorter == StringsUpTo(n - 1)
         IN shorter \cup {Append(x, c) : x \in shorter, c \in Chars}

\* the messages with a string argument
CodecMsgs ==
    {[opcode |-> h.opcode, nodeid |-> h.nodeid, arg |-> a] :
        h \in Heads, a \in StringsUpTo(MaxArgLen)}

\* json.Marshal(msg): neither '$' nor '!' is escaped inside a JSON string
Marshal(m) ==
    <<"{", HeadToken([opcode |-> m.opcode, nodeid |-> m.nodeid]), Quote>>
        \o m.arg \o <<Quote, "}">>

\* sendMessage: fmt.Sprintf("!%s$", string(data))
EncodeFrame(m) == <<"!">> \o Marshal(m) \o <<"$">>

\* the position of the first '$' of s, 0 when there is none
FirstDollar(s) ==
    IF \E i \in 1..Len(s) : s[i] = "$"
    THEN CHOOSE i \in 1..Len(s) : s[i] = "$" /\ \A j \in 1..(i - 1) : s[j] # "$"
    ELSE 0

\* strings.Split(buffer, "$")
RECURSIVE Split(_)
Split(s) ==
    IF FirstDollar(s) = 0 THEN <<s>>
    ELSE <<SubSeq(s, 1, FirstDollar(s) - 1)>>
             \o Split(SubSeq(s, FirstDollar(s) + 1, Len(s)))

\* a prefix test that lets every part through
HasPrefixAny(part) == TRUE

\* strings.HasPrefix(part, "!")
HasPrefix(part) == Len(part) >= 1 /\ part[1] = "!"

\* strings.TrimPrefix(part, "!")
TrimPrefix(part) == IF Len(part) >= 1 /\ part[1] = "!" THEN Tail(part) ELSE part

\* json.Unmarshal([]byte(jsonStr), &msg): err == nil exactly when the text is
\* one JSON object; a string ends at its closing quote
Parsable(body) ==
    /\ Len(body) >= 5
    /\ body[1] = "{"
    /\ \E h \in Heads : body[2] = HeadToken(h)
    /\ body[3] = Quote
    /\ \A i \in 4..(Len(body) - 2) : body[i] \in Chars
    /\ body[Len(body) - 1] = Quote
    /\ body[Len(body)] = "}"

Unmarshal(body) ==
    LET h == CHOOSE x \in Heads : body[2] = HeadToken(x)
    IN [opcode |-> h.opcode, nodeid |-> h.nodeid,
        arg |-> SubSeq(body, 4, Len(body) - 2)]

\* parseMessages, from its part i on
RECURSIVE ParseParts(_, _)
ParseParts(parts, i) ==
    IF i > Len(parts) THEN <<>>
    ELSE (IF HasPrefix(parts[i]) /\ Parsable(TrimPrefix(parts[i]))
          THEN <<Unmarshal(TrimPrefix(parts[i]))>>
          ELSE <<>>) \o ParseParts(parts, i + 1)

\* parseMessages(buffer)
ParseMessages(buffer) == ParseParts(Split(buffer), 1)

\* what a peer can send besides well-formed frames: text without the leading
\* sentinel, a truncated body, a body without the leading sentinel, nothing
Fragments ==
    {EncodeFrame([opcode |-> "SWITCH", nodeid |-> "1", arg |-> <<"a">>]),
     EncodeFrame([opcode |-> "CCU_HB", nodeid |-> "*", arg |-> <<"!">>]),
     <<"a", "$">>,
     <<"!", "{", "$">>,
     Marshal([opcode |-> "SWITCH", nodeid |-> "1", arg |-> <<"a">>]) \o <<"$">>,
     <<"$">>}

\* the sequences over S of at most n elements
RECURSIVE SeqsUpTo(_, _)
SeqsUpTo(S, n) ==
    IF n = 0 THEN {<<>>}
    ELSE LET shorter == SeqsUpTo(S, n - 1)
         IN shorter \cup {Append(x, e) : x \in shorter, e \in S}

\* An established session whose codec is exercised: either sendMessage's
\* frames are read back, or a peer's fragments are read
InitCodec ==
    /\ Established
    /\ \/ outbox \in SeqsUpTo(CodecMsgs, MaxFrames) /\ inflow = <<>>
       \/ inflow \in SeqsUpTo(Fragments, MaxFrames) /\ outbox = <<>>
    /\ put = 0
    /\ wire = <<>>
    /\ decoded = <<>>

\* sendMessage: the next message is marshalled, framed and written
WriteFrame ==
    /\ put < Len(outbox)
    /\ wire' = wire \o EncodeFrame(outbox[put + 1])
    /\ put' = put + 1
    /\ UNCHANGED <<proxy, outbox, inflow, decoded>>

\* the peer sends its next fragment
PeerSend ==
    /\ put < Len(inflow)
    /\ wire' = wire \o inflow[put + 1]
    /\ put' = put + 1
    /\ UNCHANGED <<proxy, outbox, inflow, decoded>>

\* receive, one iteration on data: reader.ReadString('$') returns the bytes
\* up to and including the first '$'; they are the whole buffer, which
\* parseMessages splits and decodes; the loop goes on, still connected
ReadFrame ==
    /\ connected
    /\ FirstDollar(wire) # 0
    /\ decoded' = decoded \o ParseMessages(SubSeq(wire, 1, FirstDollar(wire)))
    /\ wire' = SubSeq(wire, FirstDollar(wire) + 1, Len(wire))
    /\ UNCHANGED <<proxy, outbox, inflow, put>>

CodecNext ==
    \/ WriteFrame
    \/ PeerSend
    \/ ReadFrame

CodecSpec == InitCodec /\ [][CodecNext]_vars

\* ================================================================ claims
\* a receive loop that is still looping
RdLooping(t) == pc[t] \in {"rd_init", "rd_check", "rd_read", "rd_msg", "rd_sw"}

\* a heartbeat loop that is still looping (sleeping, or sending its heartbeat)
HbLooping(t) ==
    \/ pc[t] = "hb_check"
    \/ pc[t] \in {"send_lock", "send_write"} /\ ret[t] = "hb"

\* a REST handler inside SendCommand
InSendCommand(h) == pc[h] \in {"send_lock", "send_write", "h_store"}

\* a receive loop's step that runs handleSwitch on its current message
Handles(t) == pc[t] = "rd_sw" /\ pc'[t] = "rd_check"

Recognized == {"ON", "OPEN", "OFF", "CLOSE"}

\* a SWITCH message whose arg is a string outside the four tokens
Unrecognized(m) == IsString(m.arg) /\ m.arg \notin Recognized

\* ---- C1
\* a goroutine in reconnect has dialled the gateway again and was accepted
ReconnectAccepted == \E t \in Loops : pc[t] = "send_lock" /\ ret[t] = "login"

\* the session is Active on the current connection: LOGIN written on it and a
\* receive loop and a heartbeat loop started for it
ActiveAgain ==
    /\ connected
    /\ conn # 0
    /\ conn \notin closed
    /\ Msg("LOGIN", "*", ObjArg) \in sent[conn]
    /\ \E r \in Receivers : RdLooping(r) /\ gen[r] = conn
    /\ \E b \in Heartbeats : HbLooping(b) /\ gen[b] = conn

\* C1: self-healing reconnect.  Once an Active session has failed and the
\* gateway has accepted a later connection attempt, the session eventually
\* is Active again on the new connection (unless the process dies first).
C1_SelfHealing == ReconnectAccepted ~> (ActiveAgain \/ crashed)

\* ---- C2
\* C2: SendCommand always returns.  Every REST handler that has entered
\* SendCommand eventually sends its response (unless the process dies first).
C2_SendCommandReturns ==
    \A h \in Handlers : InSendCommand(h) ~> (pc[h] = "done" \/ crashed)

\* ---- C3
\* C3: reconciliation idempotence.  A downstream call is made for a report
\* exactly when the state it resolves to differs from the one recorded for
\* its entity, which is then the recorded one (while the process lives); and
\* of two consecutive reports that resolve to the same entity and state the
\* second makes no call.
C3_Idempotence ==
    /\ \A i \in 1..Len(reports) :
         /\ reports[i].called <=> (reports[i].before # reports[i].state)
         /\ (i = Len(reports) /\ ~crashed)
              => entity[reports[i].entity] = reports[i].state
    /\ \A i \in 1..(Len(reports) - 1) :
         (/\ reports[i].entity = reports[i + 1].entity
          /\ reports[i].state = reports[i + 1].state) => ~reports[i + 1].called

\* two consecutive reports resolved to the same entity and state, the first
\* of them made its call
C3_RepeatedReport ==
    /\ Len(reports) >= 2
    /\ reports[1].entity = reports[2].entity
    /\ reports[1].state = reports[2].state
    /\ reports[1].called
    /\ ~reports[2].called

C5_CommandOptimism ==
    [][\A h \in Handlers :
         (InSendCommand(h) /\ pc'[h] = "done")
            => devices'[cur[h].nodeid] = cur[h].arg]_vars

\* ---- C6
\* the goroutines inside sendMessage's socket write
Writers == {t \in Threads : pc[t] = "send_write"}

\* C6: outbound write mutual exclusion.  At most one goroutine is inside the
\* socket write of sendMessage, and it holds the mutex.
C6_WriteMutex ==
    /\ Cardinality(Writers) <= 1
    /\ \A t \in Writers : mutex = t

\* one goroutine is writing while another waits in sendMessage for the mutex
C6_Contended ==
    \E t \in Writers : \E u \in Threads \ {t} : pc[u] = "send_lock"

\* ---- C7
\* C7: lock coverage.  Every step that changes the Device State Map, the
\* Entity State Map or the connected flag is taken by a goroutine that holds
\* the mutex.
C7_LockCoverage ==
    [][(devices' # devices \/ entity' # entity \/ connected' # connected)
         => \/ crashed'
            \/ \E t \in Threads : pc'[t] # pc[t] /\ (mutex = t \/ mutex' = t)]_vars

\* ---- C8
\* C8: single Active generation.  At most one receive loop and at most one
\* heartbeat loop are looping.
C8_SingleGeneration ==
    /\ Cardinality({t \in Receivers : RdLooping(t)}) <= 1
    /\ Cardinality({t \in Heartbeats : HbLooping(t)}) <= 1

\* a reconnect has established a new connection while the heartbeat loop of
\* the superseded one is still looping
C8_Superseded ==
    /\ conn > 1
    /\ connected
    /\ \E t \in Heartbeats : HbLooping(t) /\ gen[t] # conn

\* ---- C9
\* C9: heartbeat cessation.  A heartbeat loop whose connection has been torn
\* down by handleDisconnect never passes its loop check again.
C9_HeartbeatCessation ==
    [][\A t \in Heartbeats :
         (pc[t] = "hb_check" /\ pc'[t] = "send_lock") => gen[t] \notin closed]_vars

\* ---- C10
\* C10: connect failure always leads to retry.  Whenever the last connection
\* attempt has failed, some goroutine is in Backoff, about to dial again.
C10_ConnectRetry ==
    crashed \/ (lastDial = "failed" => \E t \in Threads : pc[t] = "backoff")

\* ---- C11
\* a goroutine's p.conn.Write has just returned an error
WriteFailed(t) ==
    /\ pc[t] = "send_write"
    /\ pc'[t] # "send_write"
    /\ conn # 0
    /\ lastWrite' = "failed"
    /\ ~crashed'

\* C11: every transport write error is a session failure.  A goroutine whose
\* socket write failed goes on to handleDisconnect, which marks the session
\* not-connected and closes the socket.
C11_WriteErrorFails ==
    [][\A t \in Threads : WriteFailed(t) => pc'[t] = "hd_lock"]_vars

\* ---- C12
\* a receive loop's step that finishes a message whose opcode has no handler
HandlesUnknown(t) ==
    /\ pc[t] \in {"rd_msg", "rd_sw"}
    /\ cur[t].opcode \notin HandledOpcodes
    /\ pc'[t] = "rd_check"

\* C12: unknown-opcode safety.  Processing a message whose opcode is not
\* CCU_HB, SYNC_INFO, SWITCH or LOGIN changes neither map nor the connected
\* flag nor the socket, writes nothing and makes no downstream call.
C12_UnknownOpcodeSafe ==
    [][\A t \in Receivers :
         HandlesUnknown(t)
            => UNCHANGED <<devices, entity, connected, conn, closed, sent, reports,
                           lastCall>>]_vars

\* the receive loop is about to process a message with an unknown opcode that
\* names a registered node and carries a recognized token
C12_UnknownDispatched ==
    \E t \in Receivers :
        /\ pc[t] = "rd_msg"
        /\ cur[t].opcode \notin HandledOpcodes
        /\ Resolve(cur[t].nodeid) # ""
        /\ Normalize(cur[t].arg) # ""

\* ---- C13
\* everything handed to the encoder has been written and read back
LoopedBack == inflow = <<>> /\ put = Len(outbox) /\ FirstDollar(wire) = 0

\* C13: codec round-trip.  Once the frames the encoder produced for a
\* sequence of messages with string arguments (which may contain '$' or '!')
\* have been read back, the decoder has returned exactly those messages.
C13_RoundTrip == LoopedBack => decoded = outbox

\* ---- C14
\* a '$'-terminated fragment that starts with '!' and carries a parsable body
WellFormed(f) == f[1] = "!" /\ Parsable(SubSeq(f, 2, Len(f) - 1))

\* the messages of the well-formed fragments among fs, in order
RECURSIVE MessagesOf(_)
MessagesOf(fs) ==
    IF fs = <<>> THEN <<>>
    ELSE (IF WellFormed(Head(fs))
          THEN <<Unmarshal(SubSeq(Head(fs), 2, Len(Head(fs)) - 1))>>
          ELSE <<>>) \o MessagesOf(Tail(fs))

\* C14: decode errors are local.  At every point of a stream of
\* '$'-terminated fragments the messages handed on are exactly those of the
\* well-formed fragments read so far, in stream order, and the session is
\* still connected.
C14_DecodeLocal ==
    (outbox = <<>> /\ FirstDollar(wire) = 0)
        => /\ decoded = MessagesOf(SubSeq(inflow, 1, put))
           /\ connected

\* a malformed fragment and then a well-formed one have been read: only the
\* second was handed on
C14_DroppedAlone ==
    /\ outbox = <<>>
    /\ put = 2
    /\ wire = <<>>
    /\ ~WellFormed(inflow[1])
    /\ WellFormed(inflow[2])
    /\ Len(decoded) = 1

\* ---- C15
\* the normalization table of the four tokens
TableState(a) ==
    CASE a = "ON" -> "on" [] a = "OPEN" -> "on" [] a = "OFF" -> "off"
      [] a = "CLOSE" -> "off"

\* the report a step of handleSwitch has just logged made a downstream call
JustCalled == Len(reports') = Len(reports) + 1 /\ reports'[Len(reports')].called

\* C15: normalization table.  After a SWITCH report with one of the four
\* tokens for a registered node, the Entity State Map holds on for ON / OPEN
\* and off for OFF / CLOSE, a downstream call made for it carries that
\* value, and the Device State Map holds the raw token.
C15_NormalizationTable ==
    [][\A t \in Receivers :
         (/\ Handles(t)
          /\ cur[t].arg \in Recognized
          /\ Resolve(cur[t].nodeid) # "")
            => /\ entity'[Resolve(cur[t].nodeid)] = TableState(cur[t].arg)
               /\ devices'[cur[t].nodeid] = cur[t].arg
               /\ JustCalled => lastCall'.state = TableState(cur[t].arg)]_vars

\* an OPEN report for a registered node was pushed downstream as on
C15_OpenPushed ==
    /\ lastCall.state = "on"
    /\ \E n \in Nodes :
         /\ devices[n] = "OPEN"
         /\ Resolve(n) # ""
         /\ lastCall.entity = "switch." \o Resolve(n)
         /\ entity[Resolve(n)] = "on"

\* ---- C16
\* the report being handled repeats the one whose downstream call failed
RepeatsFailed(t) ==
    /\ ~lastCall.ok
    /\ cur[t].arg \in Recognized
    /\ lastCall.entity = "switch." \o Resolve(cur[t].nodeid)
    /\ lastCall.state = TableState(cur[t].arg)

\* C16: downstream failure is swallowed.  When the call made for a report
\* fails, the Entity State Map holds the new state, the session stays
\* connected and the receive loop goes on; and a report that repeats the one
\* whose call failed makes no call.
C16_FailureSwallowed ==
    [][\A t \in Receivers :
         Handles(t)
            => /\ (JustCalled /\ ~lastCall'.ok)
                    => /\ entity'[Resolve(cur[t].nodeid)] = TableState(cur[t].arg)
                       /\ UNCHANGED <<connected, conn, closed, sent>>
               /\ RepeatsFailed(t) => (~JustCalled /\ UNCHANGED <<entity, lastCall>>)]_vars

\* a call failed and the same report came again: one call in all
C16_FailedThenRepeated ==
    /\ Len(reports) = 2
    /\ reports[1].called
    /\ ~reports[2].called
    /\ reports[1].entity = reports[2].entity
    /\ reports[1].state = reports[2].state
    /\ ~lastCall.ok
    /\ connected
    /\ entity[reports[1].entity] = reports[1].state

\* ---- C17
\* a step of handleSwitch reconciles entity x and no other
Reconciles(t, x) ==
    /\ entity'[x] = TableState(cur[t].arg)
    /\ \A e \in Entities \ {x} : entity'[e] = entity[e]
    /\ JustCalled => lastCall'.entity = "switch." \o x

\* C17: registry lookup order.  A report with a recognized token for a node
\* of the curtain partition (whether or not the light partition has it too)
\* reconciles the curtain's entity, one for a node of the light partition
\* only the light's entity, and one for a node of neither changes no entity
\* state and makes no call.
C17_LookupOrder ==
    [][\A t \in Receivers :
         (Handles(t) /\ cur[t].arg \in Recognized)
            => LET n == cur[t].nodeid
               IN /\ n \in DOMAIN Curtains => Reconciles(t, Curtains[n])
                  /\ (n \notin DOMAIN Curtains /\ n \in DOMAIN Lights)
                        => Reconciles(t, Lights[n])
                  /\ (n \notin DOMAIN Curtains /\ n \notin DOMAIN Lights)
                        => UNCHANGED <<entity, reports, lastCall>>]_vars

\* a report for a node of both partitions was reconciled
C17_BothPartitions ==
    \E n \in DOMAIN Curtains \cap DOMAIN Lights :
        /\ devices[n] \in Recognized
        /\ entity[Curtains[n]] # ""
        /\ lastCall.entity = "switch." \o Curtains[n]

\* ---- C18
\* C18: LOGIN-first ordering.  A connection on which any frame has been
\* written has had its LOGIN frame written.
C18_LoginFirst ==
    \A c \in 1..MaxConn :
        sent[c] # {} => Msg("LOGIN", "*", ObjArg) \in sent[c]

\* ---- C19
\* C19: no self-deadlock.  No goroutine waits for the mutex (in sendMessage
\* or in handleDisconnect) while it holds it.
C19_NoSelfDeadlock ==
    \A t \in Threads : pc[t] \in {"send_lock", "hd_lock"} => mutex # t

\* ---- C20
\* C20: no write on an absent connection.  A goroutine at sendMessage's
\* p.conn.Write finds p.conn non-nil.
C20_NoNilWrite ==
    \A t \in Threads : pc[t] = "send_write" => conn # 0

====
